---- MODULE Spec2Model ----
(***************************************************************************)
(* Model of server.js: the helpers stripHtml, extractReference, formatDate *)
(* and normalizeOutage, and the GET /api/outages handler.                  *)
(*                                                                         *)
(* A JavaScript string is a sequence of one-character strings.  A          *)
(* JavaScript value is a record [t, s, n]: t is its type tag, s the        *)
(* characters of a string, n the value of a number.                        *)
(***************************************************************************)
EXTENDS Integers, Sequences, FiniteSets, TLC

VARIABLES
    html, text,            \* stripHtml: its argument, and <<return value>> once called
    props, outage,         \* normalizeOutage: its argument, and <<outcome>> once called
    freq, fres,            \* one request/upstream pair, and <<handler outcome>> once run
    query, pc, resp, fetches, upstream, serverUp   \* the running server

pureVars == <<html, text, props, outage, freq, fres>>
srvVars == <<query, pc, resp, fetches, upstream, serverUp>>
vars == <<html, text, props, outage, freq, fres, query, pc, resp, fetches, upstream, serverUp>>

-----------------------------------------------------------------------------
(* JavaScript values *)

Undef == [t |-> "undef", s |-> <<>>, n |-> 0]
Null == [t |-> "null", s |-> <<>>, n |-> 0]
NaN == [t |-> "nan", s |-> <<>>, n |-> 0]
\* some array (or nested object) value, e.g. ["a", "b"]
List == [t |-> "list", s |-> <<>>, n |-> 0]
Str(s) == [t |-> "str", s |-> s, n |-> 0]
Num(n) == [t |-> "num", s |-> <<>>, n |-> n]
\* the string Date.prototype.toLocaleString renders for the instant n
Localized(n) == [t |-> "localized", s |-> <<>>, n |-> n]

\* ToBoolean: undefined, null, NaN, 0 and "" are falsy
Truthy(v) ==
    CASE v.t \in {"undef", "null", "nan"} -> FALSE
      [] v.t = "num" -> v.n # 0
      [] v.t = "str" -> v.s # <<>>
      [] OTHER -> TRUE

\* a || b
Or(a, b) == IF Truthy(a) THEN a ELSE b

-----------------------------------------------------------------------------
(* Characters and the String built-ins the code calls *)

UpperSeq == <<"A","B","C","D","E","F","G","H","I","J","K","L","M",
              "N","O","P","Q","R","S","T","U","V","W","X","Y","Z">>
LowerSeq == <<"a","b","c","d","e","f","g","h","i","j","k","l","m",
              "n","o","p","q","r","s","t","u","v","w","x","y","z">>
Upper == {UpperSeq[i] : i \in 1..Len(UpperSeq)}
Lower == {LowerSeq[i] : i \in 1..Len(LowerSeq)}
Digit == {"0","1","2","3","4","5","6","7","8","9"}
\* \w of a regular expression
WordChar == Upper \cup Lower \cup Digit \cup {"_"}
\* \s of a regular expression, and what trim() removes
WhiteSpace == {" ", "\t", "\n", "\r"}
\* what . of a regular expression does not match
LineTerminator == {"\n", "\r"}

ToLowerChar(c) ==
    IF c \in Upper
      THEN LowerSeq[CHOOSE i \in 1..Len(UpperSeq) : UpperSeq[i] = c]
      ELSE c

\* String.prototype.toLowerCase
ToLowerCase(s) == [i \in 1..Len(s) |-> ToLowerChar(s[i])]

\* String.prototype.trim
Trim(s) ==
    LET keep == {i \in 1..Len(s) : s[i] \notin WhiteSpace}
    IN  IF keep = {} THEN <<>>
        ELSE LET lo == CHOOSE i \in keep : \A j \in keep : i <= j
                 hi == CHOOSE i \in keep : \A j \in keep : j <= i
             IN  SubSeq(s, lo, hi)

\* s has sub at position i
OccursAt(s, sub, i) ==
    /\ i >= 1
    /\ i + Len(sub) - 1 <= Len(s)
    /\ \A k \in 1..Len(sub) : s[i + k - 1] = sub[k]

\* String.prototype.includes
Includes(s, sub) == \E i \in 1..(Len(s) + 1) : OccursAt(s, sub, i)

RECURSIVE SplitFrom(_, _, _, _)
SplitFrom(s, sep, i, cur) ==
    IF i > Len(s) THEN <<cur>>
    ELSE IF s[i] = sep THEN <<cur>> \o SplitFrom(s, sep, i + 1, <<>>)
    ELSE SplitFrom(s, sep, i + 1, Append(cur, s[i]))

\* String.prototype.split with a one-character separator
Split(s, sep) == SplitFrom(s, sep, 1, <<>>)

RECURSIVE Join(_, _)
\* Array.prototype.join with a one-character separator
Join(parts, sep) ==
    IF parts = <<>> THEN <<>>
    ELSE IF Len(parts) = 1 THEN parts[1]
    ELSE parts[1] \o <<sep>> \o Join(Tail(parts), sep)

-----------------------------------------------------------------------------
(* stripHtml *)

\* the first index >= i of s that holds no white space (Len(s) + 1 if none)
RECURSIVE SkipWs(_, _)
SkipWs(s, i) ==
    IF i <= Len(s) /\ s[i] \in WhiteSpace THEN SkipWs(s, i + 1) ELSE i

\* /<br\s*\/?>/i at position i: the index of the match's last character, 0 if
\* there is no match
MatchBr(s, i) ==
    IF /\ i + 2 <= Len(s)
       /\ s[i] = "<"
       /\ s[i + 1] \in {"b", "B"}
       /\ s[i + 2] \in {"r", "R"}
      THEN LET j == SkipWs(s, i + 3)
               k == IF j <= Len(s) /\ s[j] = "/" THEN j + 1 ELSE j
           IN  IF k <= Len(s) /\ s[k] = ">" THEN k ELSE 0
      ELSE 0

\* /<\/div\s*>/i at position i
MatchCloseDiv(s, i) ==
    IF /\ i + 4 <= Len(s)
       /\ s[i] = "<"
       /\ s[i + 1] = "/"
       /\ s[i + 2] \in {"d", "D"}
       /\ s[i + 3] \in {"i", "I"}
       /\ s[i + 4] \in {"v", "V"}
      THEN LET j == SkipWs(s, i + 5)
           IN  IF j <= Len(s) /\ s[j] = ">" THEN j ELSE 0
      ELSE 0

\* /<.*?>/ at position i: up to the nearest ">", with no line terminator between
MatchTag(s, i) ==
    IF i <= Len(s) /\ s[i] = "<"
      THEN LET ends == {j \in (i + 1)..Len(s) :
                          /\ s[j] = ">"
                          /\ \A k \in (i + 1)..(j - 1) : s[k] \notin LineTerminator}
           IN  IF ends = {} THEN 0
               ELSE CHOOSE j \in ends : \A k \in ends : j <= k
      ELSE 0

MatchEnd(re, s, i) ==
    CASE re = "br" -> MatchBr(s, i)
      [] re = "div" -> MatchCloseDiv(s, i)
      [] re = "tag" -> MatchTag(s, i)

\* String.prototype.replace with a global regular expression: left to right,
\* each match replaced by rep, the scan resuming after the match
RECURSIVE ReplaceFrom(_, _, _, _)
ReplaceFrom(re, s, rep, i) ==
    IF i > Len(s) THEN <<>>
    ELSE LET e == MatchEnd(re, s, i)
         IN  IF e > 0 THEN rep \o ReplaceFrom(re, s, rep, e + 1)
             ELSE <<s[i]>> \o ReplaceFrom(re, s, rep, i + 1)

ReplaceAll(re, s, rep) == ReplaceFrom(re, s, rep, 1)

\* .map((l) => l.trim()).filter(Boolean)
TrimmedLines(lines) ==
    SelectSeq([i \in 1..Len(lines) |-> Trim(lines[i])], LAMBDA l : l # <<>>)

\* stripHtml of a string (the characters of html)
stripHtmlText(s) ==
    LET t1 == ReplaceAll("br", s, <<"\n">>)
        t2 == ReplaceAll("div", t1, <<"\n">>)
        t3 == ReplaceAll("tag", t2, <<>>)
    IN  Join(TrimmedLines(Split(t3, "\n")), "\n")

\* stripHtml(html) throws when html is truthy and has no replace method
stripHtmlThrows(v) == Truthy(v) /\ v.t # "str"

\* stripHtml(html), for an argument it does not throw on
stripHtml(v) == IF ~Truthy(v) THEN <<>> ELSE stripHtmlText(v.s)

-----------------------------------------------------------------------------
(* extractReference *)

RefLetters == 3
RefDigits == 8

IsWordAt(s, i) == i >= 1 /\ i <= Len(s) /\ s[i] \in WordChar

\* \b between the characters i - 1 and i
BoundaryBefore(s, i) == IsWordAt(s, i - 1) # IsWordAt(s, i)

\* MatchRef without its word boundaries
MatchRef_unanchored(s, i) ==
    /\ i >= 1
    /\ i + RefLetters + RefDigits - 1 <= Len(s)
    /\ \A k \in 0..(RefLetters - 1) : s[i + k] \in Upper
    /\ \A k \in RefLetters..(RefLetters + RefDigits - 1) : s[i + k] \in Digit

\* /\b[A-Z]{3}\d{8}\b/ matches at position i
MatchRef(s, i) ==
    /\ i >= 1
    /\ i + RefLetters + RefDigits - 1 <= Len(s)
    /\ BoundaryBefore(s, i)
    /\ \A k \in 0..(RefLetters - 1) : s[i + k] \in Upper
    /\ \A k \in RefLetters..(RefLetters + RefDigits - 1) : s[i + k] \in Digit
    /\ BoundaryBefore(s, i + RefLetters + RefDigits)

\* description.match(...): the leftmost match, scanning from position i
RECURSIVE ScanRef(_, _)
ScanRef(s, i) ==
    IF i > Len(s) THEN Null
    ELSE IF MatchRef(s, i) THEN Str(SubSeq(s, i, i + RefLetters + RefDigits - 1))
    ELSE ScanRef(s, i + 1)

\* extractReference(description), description a string (its characters)
extractReference(s) == IF s = <<>> THEN Null ELSE ScanRef(s, 1)

-----------------------------------------------------------------------------
(* formatDate *)

\* new Date(epoch) is a valid instant.  Every number the model draws is within
\* the range of Date; a string that holds no digit never parses to a date (which
\* instant another string parses to is not modelled: its n is 0).
IsValidDate(v) ==
    CASE v.t = "num" -> TRUE
      [] v.t = "str" -> \E i \in 1..Len(v.s) : v.s[i] \in Digit
      [] v.t = "null" -> TRUE
      [] OTHER -> FALSE

formatDate(epoch) ==
    IF ~Truthy(epoch) /\ epoch # Num(0) THEN Null
    ELSE IF ~IsValidDate(epoch) THEN Null
    ELSE Localized(epoch.n)

-----------------------------------------------------------------------------
(* normalizeOutage *)

\* the properties of a raw record: a key the record lacks reads as undefined
NoProps ==
    [OBJECTID |-> Undef, GLOBALID |-> Undef, TITLE |-> Undef, STATUS |-> Undef,
     LOCATION |-> Undef, COUNTY |-> Undef, STARTDATE |-> Undef, ENDDATE |-> Undef,
     REFERENCENUM |-> Undef, DESCRIPTION |-> Undef]

\* normalizeOutage(p) throws (stripHtml does, on a description that is no string)
normalizeThrows(p) == stripHtmlThrows(Or(p.DESCRIPTION, Str(<<>>)))

\* normalizeOutage(p), for a record it does not throw on
normalizeOutage(p) ==
    LET rawDesc == Or(p.DESCRIPTION, Str(<<>>))
        plainDesc == stripHtml(rawDesc)
        reference == Or(p.REFERENCENUM, extractReference(plainDesc))
    IN  [objectid |-> p.OBJECTID,
         globalid |-> p.GLOBALID,
         title |-> Or(p.TITLE, Str(<<>>)),
         status |-> Or(p.STATUS, Str(<<>>)),
         location |-> Or(p.LOCATION, Str(<<>>)),
         county |-> Or(p.COUNTY, Str(<<>>)),
         startdate_epoch |-> Or(p.STARTDATE, Null),
         enddate_epoch |-> Or(p.ENDDATE, Null),
         startdate_human |-> formatDate(p.STARTDATE),
         enddate_human |-> formatDate(p.ENDDATE),
         reference |-> reference,
         description |-> Str(plainDesc)]

-----------------------------------------------------------------------------
(* GET /api/outages *)

\* req.query: a parameter is absent (undefined), a string, or, when the query
\* string repeats it, an array
NoQuery == [county |-> Undef, refnum |-> Undef, location |-> Undef]

\* (x || "").trim is no function when x is an array
TrimThrows(v) == Truthy(v) /\ v.t # "str"

\* lines 66 and 67 throw a TypeError, before the handler's try block
prologueThrows(q) == TrimThrows(q.refnum) \/ TrimThrows(q.location)

\* refnumOf without the trim
refnumOf_untrimmed(q) == Or(Or(q.refnum, Str(<<>>)), Null)

\* const refnum = (req.query.refnum || "").trim() || null
refnumOf(q) == Or(Str(Trim(Or(q.refnum, Str(<<>>)).s)), Null)

\* const locationFilter = (req.query.location || "").trim().toLowerCase()
locationFilterOf(q) == Str(ToLowerCase(Trim(Or(q.location, Str(<<>>)).s)))

\* what axios.get settles with: a rejection carrying err.message, or a response
\* whose data may lack the features array
Rejected(m) == [rejected |-> TRUE, message |-> m, hasFeatures |-> FALSE, features |-> <<>>]
NoFeatures == [rejected |-> FALSE, message |-> "", hasFeatures |-> FALSE, features |-> <<>>]
Resolved(fs) == [rejected |-> FALSE, message |-> "", hasFeatures |-> TRUE, features |-> fs]

\* a feature holds its record under properties, under attributes, or not at all
\* (an absent key is the empty sequence)
FeatureP(p) == [properties |-> <<p>>, attributes |-> <<>>]
FeatureA(p) == [properties |-> <<>>, attributes |-> <<p>>]
FeatureNone == [properties |-> <<>>, attributes |-> <<>>]

\* f.properties || f.attributes || {}
featureProps(f) ==
    IF f.properties # <<>> THEN f.properties[1]
    ELSE IF f.attributes # <<>> THEN f.attributes[1]
    ELSE NoProps

\* data.features || []
featuresOf(result) == IF result.hasFeatures THEN result.features ELSE <<>>

\* features.map((f) => normalizeOutage(...)) throws
mapThrows(fs) == \E i \in 1..Len(fs) : normalizeThrows(featureProps(fs[i]))

\* features.map((f) => normalizeOutage(...)), when it does not throw
mapNormalize(fs) == [i \in 1..Len(fs) |-> normalizeOutage(featureProps(fs[i]))]

\* outages.filter((o) => o.reference === refnum), when refnum is truthy
filterRefnum(outages, refnum) ==
    IF Truthy(refnum)
      THEN SelectSeq(outages, LAMBDA o : o.reference = refnum)
      ELSE outages

\* (o.location || "").toLowerCase is no function when location is no string
locationThrows(outages, locationFilter) ==
    /\ Truthy(locationFilter)
    /\ \E i \in 1..Len(outages) : Or(outages[i].location, Str(<<>>)).t # "str"

\* matchesLocation that looks at the location only
matchesLocation_locationOnly(o, locationFilter) ==
    Includes(ToLowerCase(Or(o.location, Str(<<>>)).s), locationFilter.s)

matchesLocation(o, locationFilter) ==
    LET loc == ToLowerCase(Or(o.location, Str(<<>>)).s)
        desc == ToLowerCase(Or(o.description, Str(<<>>)).s)
    IN  Includes(loc, locationFilter.s) \/ Includes(desc, locationFilter.s)

\* filterLocation that returns its matches last first
filterLocation_reversed(outages, locationFilter) ==
    IF Truthy(locationFilter)
      THEN LET kept == SelectSeq(outages, LAMBDA o : matchesLocation(o, locationFilter))
           IN  [i \in 1..Len(kept) |-> kept[Len(kept) + 1 - i]]
      ELSE outages

\* the location filter, when locationFilter is truthy and nothing throws
filterLocation(outages, locationFilter) ==
    IF Truthy(locationFilter)
      THEN SelectSeq(outages, LAMBDA o : matchesLocation(o, locationFilter))
      ELSE outages

Response(status, body) == [status |-> status, body |-> body]

\* res.status(400).json(...)
missingCounty == Response(400, [error |-> "Missing required parameter: county"])

\* the catch block's response
fetchFailed(message) ==
    Response(500, [error |-> "Failed to fetch outage data", details |-> message])

\* res.json({county, refnum, locationFilter, count, outages})
success(q, outages) ==
    Response(200, [county |-> q.county,
                   refnum |-> Or(refnumOf(q), Null),
                   locationFilter |-> Or(locationFilterOf(q), Null),
                   count |-> Len(outages),
                   outages |-> outages])

\* afterFetch that takes a rejection for an empty result
afterFetch_swallowsRejection(q, result) ==
    IF result.rejected THEN success(q, <<>>)
    ELSE IF mapThrows(featuresOf(result))
      THEN fetchFailed("html.replace is not a function")
    ELSE LET byRef == filterRefnum(mapNormalize(featuresOf(result)), refnumOf(q))
         IN  IF locationThrows(byRef, locationFilterOf(q))
               THEN fetchFailed("(o.location || \"\").toLowerCase is not a function")
               ELSE success(q, filterLocation(byRef, locationFilterOf(q)))

\* the try block from the point axios.get settles with result, and its catch
afterFetch(q, result) ==
    IF result.rejected THEN fetchFailed(result.message)
    ELSE IF mapThrows(featuresOf(result))
      THEN fetchFailed("html.replace is not a function")
    ELSE LET byRef == filterRefnum(mapNormalize(featuresOf(result)), refnumOf(q))
         IN  IF locationThrows(byRef, locationFilterOf(q))
               THEN fetchFailed("(o.location || \"\").toLowerCase is not a function")
               ELSE success(q, filterLocation(byRef, locationFilterOf(q)))

-----------------------------------------------------------------------------
(* Inputs *)

MaxHtmlTokens == 3
MaxDescTokens == 4
MaxFeatures == 3
MaxReq == 2

\* every concatenation of at most k of the tokens
RECURSIVE Concats(_, _)
Concats(tokens, k) ==
    IF k = 0 THEN {<<>>}
    ELSE LET shorter == Concats(tokens, k - 1)
         IN  shorter \cup {p \o t : p \in shorter, t \in tokens}

\* "<p" and ">" are apart, so that a line break or a <br> can come between them
HtmlTokens ==
    {<<"<","b","r",">">>, <<"<","B","R"," ","/",">">>, <<"<","/","d","i","v",">">>,
     <<"<","p">>, <<">">>, <<"\n">>, <<" ">>, <<"a">>}

HtmlInputs == {Undef} \cup {Str(s) : s \in Concats(HtmlTokens, MaxHtmlTokens)}

Ref1 == <<"A","B","C","1","2","3","4","5","6","7","8">>
Ref2 == <<"X","Y","Z","0","0","0","0","0","0","0","1">>
Ref1Lower == <<"a","b","c","1","2","3","4","5","6","7","8">>

DescTokens == {Ref1, Ref2, <<"X">>, <<"9">>, <<" ">>}

DescInputs == {Str(s) : s \in Concats(DescTokens, MaxDescTokens)}

Mayo == <<"M","a","y","o">>
Ballina == <<"B","a","l","l","i","n","a">>

TextChoice == {Undef, Str(Mayo)}
EpochChoice == {Undef, Null, Num(0), Num(5), NaN, Str(<<"n","/","a">>)}

\* records that vary the description and the explicit reference
ReferenceRecords ==
    {[NoProps EXCEPT !.DESCRIPTION = d, !.REFERENCENUM = r] :
        d \in DescInputs, r \in {Undef, Null, Str(<<>>), Str(Ref2)}}

\* records that vary which fields are there, and the epochs
FieldRecords ==
    {[OBJECTID |-> Undef, GLOBALID |-> g, TITLE |-> t, STATUS |-> st,
      LOCATION |-> l, COUNTY |-> c, STARTDATE |-> sd, ENDDATE |-> ed,
      REFERENCENUM |-> Undef, DESCRIPTION |-> d] :
        g \in TextChoice, t \in TextChoice, st \in TextChoice, l \in TextChoice,
        c \in TextChoice, sd \in EpochChoice, ed \in {Undef, Num(0), Num(9)},
        d \in {Undef, Null, Num(5), Str(<<"<","b","r",">">>)}}

RawRecords == ReferenceRecords \cup FieldRecords

\* the upstream records the handler is run on
BallinaRef1 ==
    [NoProps EXCEPT !.OBJECTID = Num(1), !.LOCATION = Str(Ballina \o <<" ","C","o">>),
                    !.REFERENCENUM = Str(Ref1), !.DESCRIPTION = Str(<<"x">>)]
MentionsBallina ==
    [NoProps EXCEPT !.OBJECTID = Num(2), !.LOCATION = Str(Mayo),
                    !.DESCRIPTION = Str(<<"n","e","a","r"," ">> \o Ballina \o <<"<","b","r",">">> \o Ref1)]
LowerRef ==
    [NoProps EXCEPT !.OBJECTID = Num(3), !.REFERENCENUM = Str(Ref1Lower),
                    !.DESCRIPTION = Str(Mayo)]
NoRef ==
    [NoProps EXCEPT !.OBJECTID = Num(4), !.LOCATION = Str(Mayo),
                    !.STARTDATE = Num(0)]
NumericLocation ==
    [NoProps EXCEPT !.OBJECTID = Num(5), !.LOCATION = Num(5),
                    !.REFERENCENUM = Str(Ref2)]

Features ==
    {FeatureP(BallinaRef1), FeatureA(MentionsBallina), FeatureP(LowerRef),
     FeatureA(NoRef), FeatureP(NumericLocation)}

FeatureLists == UNION {[1..n -> Features] : n \in 0..MaxFeatures}

RefnumInputs ==
    {Undef, Str(<<>>), Str(<<" ", " ">>), Str(Ref1), Str(<<" ">> \o Ref1 \o <<"\n">>),
     Str(Ref1Lower)}

LocationInputs ==
    {Undef, Str(<<>>), Str(<<" ">>), Str(ToLowerCase(Ballina)),
     Str(<<" ">> \o Ballina \o <<" ">>), Str(Mayo)}

FilterQueries ==
    {[county |-> Str(Mayo), refnum |-> r, location |-> l] :
        r \in RefnumInputs, l \in LocationInputs}

-----------------------------------------------------------------------------
(* stripHtml, normalizeOutage and the handler's try block, each on its own *)

StripIdle == html = Undef /\ text = <<>>
NormIdle == props = NoProps /\ outage = <<>>
FilterIdle == freq = [query |-> NoQuery, result |-> NoFeatures] /\ fres = <<>>
ServerIdle ==
    /\ query = [r \in 1..MaxReq |-> NoQuery]
    /\ pc = [r \in 1..MaxReq |-> "none"]
    /\ resp = [r \in 1..MaxReq |-> <<>>]
    /\ fetches = [r \in 1..MaxReq |-> 0]
    /\ upstream = [r \in 1..MaxReq |-> <<>>]
    /\ serverUp = TRUE

StripInit == html \in HtmlInputs /\ text = <<>> /\ NormIdle /\ FilterIdle /\ ServerIdle

CallStripHtml ==
    /\ text = <<>>
    /\ text' = <<stripHtml(html)>>
    /\ UNCHANGED <<html, props, outage, freq, fres, srvVars>>

StripSpec == StripInit /\ [][CallStripHtml]_vars

NormInit == props \in RawRecords /\ outage = <<>> /\ StripIdle /\ FilterIdle /\ ServerIdle

\* the outcome of normalizeOutage(p): it throws, or returns a value
normalizeOutcome(p) ==
    IF normalizeThrows(p)
      THEN [raised |-> TRUE, value |-> Null]
      ELSE [raised |-> FALSE, value |-> normalizeOutage(p)]

CallNormalize ==
    /\ outage = <<>>
    /\ outage' = <<normalizeOutcome(props)>>
    /\ UNCHANGED <<html, text, props, freq, fres, srvVars>>

NormSpec == NormInit /\ [][CallNormalize]_vars

FilterInit ==
    /\ freq \in {[query |-> q, result |-> Resolved(fs)] :
                    q \in FilterQueries, fs \in FeatureLists}
    /\ fres = <<>>
    /\ StripIdle /\ NormIdle /\ ServerIdle

RunTry ==
    /\ fres = <<>>
    /\ fres' = <<afterFetch(freq.query, freq.result)>>
    /\ UNCHANGED <<html, text, props, outage, freq, srvVars>>

FilterSpec == FilterInit /\ [][RunTry]_vars

-----------------------------------------------------------------------------
(* The server: requests handled concurrently, each suspended at its await *)

Reqs == 1..MaxReq

ServerQueries ==
    {NoQuery,
     [NoQuery EXCEPT !.refnum = List],
     [NoQuery EXCEPT !.county = Str(<<>>), !.location = Str(Mayo)],
     [NoQuery EXCEPT !.county = Str(Mayo)],
     [NoQuery EXCEPT !.county = Str(Mayo), !.refnum = Str(<<" ">> \o Ref1)],
     [NoQuery EXCEPT !.county = Str(Mayo), !.location = List],
     [NoQuery EXCEPT !.county = List, !.location = Str(Ballina)]}

UpstreamResults ==
    {Rejected("Network Error"),
     Rejected("Request failed with status code 503"),
     NoFeatures,
     Resolved(<<FeatureP(BallinaRef1), FeatureA(MentionsBallina), FeatureNone>>),
     Resolved(<<FeatureP([NoProps EXCEPT !.DESCRIPTION = Num(5)])>>)}

\* what the framework's default error handler answers
frameworkError == Response(500, [page |-> "TypeError"])

Init == ServerIdle /\ StripIdle /\ NormIdle /\ FilterIdle

\* lines 64-86: the handler runs to the 400 response or to its await
ReceiveRequest(r, q) ==
    /\ serverUp
    /\ pc[r] = "none"
    /\ ~prologueThrows(q)
    /\ query' = [query EXCEPT ![r] = q]
    /\ IF ~Truthy(q.county)
         THEN /\ resp' = [resp EXCEPT ![r] = Append(@, missingCounty)]
              /\ pc' = [pc EXCEPT ![r] = "done"]
              /\ UNCHANGED fetches
         ELSE /\ fetches' = [fetches EXCEPT ![r] = @ + 1]
              /\ pc' = [pc EXCEPT ![r] = "awaiting"]
              /\ UNCHANGED resp
    /\ UNCHANGED <<upstream, serverUp, pureVars>>

\* lines 66-67 throw outside the try block: the async handler's promise rejects.
\* A framework that does not take the promise leaves the rejection unhandled,
\* and the process exits: no request in flight is ever answered.
ThrowUnhandled(r, q) ==
    /\ serverUp
    /\ pc[r] = "none"
    /\ prologueThrows(q)
    /\ query' = [query EXCEPT ![r] = q]
    /\ serverUp' = FALSE
    /\ pc' = [x \in Reqs |-> IF x = r \/ pc[x] = "awaiting" THEN "lost" ELSE pc[x]]
    /\ UNCHANGED <<resp, fetches, upstream, pureVars>>

\* the same throw under a framework that forwards the rejection to its error
\* handler
ThrowForwarded(r, q) ==
    /\ serverUp
    /\ pc[r] = "none"
    /\ prologueThrows(q)
    /\ query' = [query EXCEPT ![r] = q]
    /\ resp' = [resp EXCEPT ![r] = Append(@, frameworkError)]
    /\ pc' = [pc EXCEPT ![r] = "done"]
    /\ UNCHANGED <<fetches, upstream, serverUp, pureVars>>

\* lines 86-121: axios.get settles and the handler resumes
FetchSettles(r, result) ==
    /\ serverUp
    /\ pc[r] = "awaiting"
    /\ upstream' = [upstream EXCEPT ![r] = <<result>>]
    /\ resp' = [resp EXCEPT ![r] = Append(@, afterFetch(query[r], result))]
    /\ pc' = [pc EXCEPT ![r] = "done"]
    /\ UNCHANGED <<query, fetches, serverUp, pureVars>>

Next ==
    \/ \E r \in Reqs, q \in ServerQueries : ReceiveRequest(r, q)
    \/ \E r \in Reqs, q \in ServerQueries : ThrowUnhandled(r, q)
    \/ \E r \in Reqs, q \in ServerQueries : ThrowForwarded(r, q)
    \/ \E r \in Reqs, result \in UpstreamResults : FetchSettles(r, result)

Spec == Init /\ [][Next]_vars

-----------------------------------------------------------------------------
(* Properties of the server *)

\* C1: every request whose county parameter is absent is answered with status
\* 400 and the body {error: "Missing required parameter: county"}, and no
\* upstream fetch is issued for it.
C1_MissingCountyIs400 ==
    \A r \in Reqs :
        (pc[r] # "none" /\ query[r].county = Undef) =>
            /\ resp[r] = <<[status |-> 400,
                            body |-> [error |-> "Missing required parameter: county"]]>>
            /\ fetches[r] = 0

\* the step in which request r's upstream fetch settles with a rejection
FetchFails(r) ==
    /\ upstream[r] = <<>>
    /\ upstream'[r] # <<>>
    /\ upstream'[r][1].rejected

C10_EveryRequestAnsweredOnce ==
    \A r \in Reqs :
        \/ pc[r] = "none" /\ resp[r] = <<>>
        \/ pc[r] = "awaiting" /\ resp[r] = <<>> /\ serverUp
        \/ /\ pc[r] = "done"
           /\ Len(resp[r]) = 1
           /\ resp[r][1].status \in {400, 200, 500}
           /\ \A x \in Reqs :
                (pc[x] = "done" /\ query[x] = query[r] /\ upstream[x] = upstream[r])
                    => resp[x] = resp[r]

-----------------------------------------------------------------------------
(* Properties of stripHtml *)

\* s holds a "<" with a ">" somewhere after it
HasAngleMarkup(s) ==
    \E i \in 1..Len(s) : \E j \in (i + 1)..Len(s) : s[i] = "<" /\ s[j] = ">"

\* s holds the text "a", a <br> or <br/> tag and the text "a", one after another
BrBetweenText(s) ==
    \E i \in 1..Len(s) :
        \/ OccursAt(s, <<"a", "<", "b", "r", ">", "a">>, i)
        \/ OccursAt(s, <<"a", "<", "b", "r", "/", ">", "a">>, i)

IsClean(s) ==
    s # <<>> =>
        \A k \in 1..Len(Split(s, "\n")) :
            LET line == Split(s, "\n")[k]
            IN  line # <<>> /\ line[1] \notin WhiteSpace /\ line[Len(line)] \notin WhiteSpace

\* C9: for every raw description, the stripped description contains no
\* angle-bracket markup, each <br> or <br/> has become a line break, and the
\* result has no empty line and no line with leading or trailing white space.
C9_NoMarkupLeft ==
    (text # <<>> /\ html.t = "str") =>
        /\ ~HasAngleMarkup(text[1])
        /\ BrBetweenText(html.s) => Includes(text[1], <<"a", "\n", "a">>)
        /\ IsClean(text[1])

-----------------------------------------------------------------------------
(* Properties of normalizeOutage *)

Normalized == outage # <<>> /\ ~outage[1].raised

\* three uppercase letters and eight digits start at position i of s
PatternAt(s, i) ==
    /\ i + 10 <= Len(s)
    /\ \A k \in 0..2 : s[i + k] \in Upper
    /\ \A k \in 3..10 : s[i + k] \in Digit

\* the same, as a whole word: no letter, digit or underscore right before or
\* right after it
WholeWordAt(s, i) ==
    /\ PatternAt(s, i)
    /\ i > 1 => s[i - 1] \notin WordChar
    /\ i + 11 <= Len(s) => s[i + 11] \notin WordChar

Least(S) == CHOOSE i \in S : \A j \in S : i <= j

\* the reference of a record with explicit field ref and plain description d,
\* taking the pattern at the least position of at
ReferenceFrom(ref, d, at) ==
    IF ref.t = "str" /\ ref.s # <<>> THEN ref
    ELSE IF at = {} THEN Null
    ELSE Str(SubSeq(d, Least(at), Least(at) + 10))

\* C6: the reference is the explicit reference field when it is present and
\* non-empty; otherwise the first substring of the plain-text description
\* that is three uppercase letters followed by eight digits; otherwise null.
C6_ReferenceFirstSubstring ==
    Normalized =>
        LET d == outage[1].value.description.s
        IN  outage[1].value.reference =
                ReferenceFrom(props.REFERENCENUM, d, {i \in 1..Len(d) : PatternAt(d, i)})

\* C6 as amended: ... otherwise the first such substring that stands as a whole
\* word (neither preceded nor followed by a letter, digit or underscore);
\* otherwise null.
C6_ReferenceFirstWholeWord ==
    Normalized =>
        LET d == outage[1].value.description.s
        IN  outage[1].value.reference =
                ReferenceFrom(props.REFERENCENUM, d, {i \in 1..Len(d) : WholeWordAt(d, i)})

\* no explicit reference; the description holds the pattern inside a longer
\* word first and as a whole word later, and the later one is the reference
C6_Witness ==
    /\ Normalized
    /\ props.REFERENCENUM = Undef
    /\ LET d == outage[1].value.description.s
       IN  \E i, j \in 1..Len(d) :
            /\ i < j
            /\ PatternAt(d, i) /\ ~WholeWordAt(d, i)
            /\ WholeWordAt(d, j)
            /\ outage[1].value.reference = Str(SubSeq(d, j, j + 10))
            /\ SubSeq(d, i, i + 10) # SubSeq(d, j, j + 10)

\* what C7 says of one raw epoch, its normalized epoch and its rendering
EpochContract(raw, epoch, human) ==
    /\ raw = Num(0) => (epoch = Num(0) /\ human # Null)
    /\ raw \in {Undef, Null} => (epoch = Null /\ human = Null)
    /\ (raw = NaN \/ (raw.t = "str" /\ \A i \in 1..Len(raw.s) : raw.s[i] \notin Digit))
        => human = Null

\* C7: an epoch of 0 is a valid epoch: normalize keeps it as epoch 0 and renders
\* it (a non-null human-readable field); an absent epoch gives a null epoch and
\* a null rendering, an invalid one a null rendering.
C7_ZeroEpochKept ==
    Normalized =>
        /\ EpochContract(props.STARTDATE, outage[1].value.startdate_epoch,
                         outage[1].value.startdate_human)
        /\ EpochContract(props.ENDDATE, outage[1].value.enddate_epoch,
                         outage[1].value.enddate_human)

Missing(v) == v \in {Undef, Null}

\* C8: normalize never raises, and in its result globalId, title, status,
\* location, county and description are strings (empty when missing), and the
\* epoch, human-time and reference fields are null when missing.
C8_TotalWithDefaults ==
    outage # <<>> =>
        /\ ~outage[1].raised
        /\ LET o == outage[1].value
           IN  /\ \A v \in {o.globalid, o.title, o.status, o.location, o.county,
                            o.description} : v.t = "str"
               /\ Missing(props.TITLE) => o.title = Str(<<>>)
               /\ Missing(props.STATUS) => o.status = Str(<<>>)
               /\ Missing(props.LOCATION) => o.location = Str(<<>>)
               /\ Missing(props.COUNTY) => o.county = Str(<<>>)
               /\ Missing(props.GLOBALID) => o.globalid = Str(<<>>)
               /\ Missing(props.DESCRIPTION) => o.description = Str(<<>>)
               /\ Missing(props.STARTDATE) =>
                    (o.startdate_epoch = Null /\ o.startdate_human = Null)
               /\ Missing(props.ENDDATE) =>
                    (o.enddate_epoch = Null /\ o.enddate_human = Null)
               /\ (Missing(props.REFERENCENUM) /\ Missing(props.DESCRIPTION)) =>
                    o.reference = Null

-----------------------------------------------------------------------------
(* Properties of the filters *)

\* the handler answered 200
Answered == fres # <<>> /\ fres[1].status = 200

\* the normalized outages, before any filter
Unfiltered == mapNormalize(freq.result.features)

\* the filters the query supplies: a string that is not empty once trimmed
RefnumSupplied == freq.query.refnum.t = "str" /\ Trim(freq.query.refnum.s) # <<>>
LocationSupplied == freq.query.location.t = "str" /\ Trim(freq.query.location.s) # <<>>

SuppliedRefnum == Trim(freq.query.refnum.s)
SuppliedLocation == ToLowerCase(Trim(freq.query.location.s))

HasReference(o) == o.reference.t = "str" /\ o.reference.s = SuppliedRefnum

InLocationOrDescription(o) ==
    \/ Includes(ToLowerCase(o.location.s), SuppliedLocation)
    \/ Includes(ToLowerCase(o.description.s), SuppliedLocation)

SatisfiesSupplied(o) ==
    /\ RefnumSupplied => HasReference(o)
    /\ LocationSupplied => InLocationOrDescription(o)

\* out is the elements of in at the positions in keep, in the order of in
IsSelection(in, out, keep) ==
    \E f \in [1..Len(out) -> 1..Len(in)] :
        /\ \A i, j \in 1..Len(out) : i < j => f[i] < f[j]
        /\ \A i \in 1..Len(out) : out[i] = in[f[i]]
        /\ {f[i] : i \in 1..Len(out)} = keep

\* C3: the filtered result is exactly the outages of the input that satisfy
\* every supplied filter, in the input's order; with no filter supplied it is
\* the input; and count is the length of the returned list.
C3_FilterSelectsInOrder ==
    Answered =>
        LET out == fres[1].body.outages
            in == Unfiltered
        IN  /\ IsSelection(in, out, {i \in 1..Len(in) : SatisfiesSupplied(in[i])})
            /\ (~RefnumSupplied /\ ~LocationSupplied) => out = in
            /\ fres[1].body.count = Len(out)

\* both filters supplied; of three outages the first and the last satisfy both
\* and are returned in that order, and the middle one is dropped
C3_Witness ==
    /\ Answered
    /\ RefnumSupplied /\ LocationSupplied
    /\ Len(Unfiltered) = 3
    /\ Unfiltered[1] # Unfiltered[3]
    /\ fres[1].body.outages = <<Unfiltered[1], Unfiltered[3]>>
    /\ fres[1].body.count = 2

\* C4: a supplied refnum is trimmed and, if then empty, treated as absent;
\* otherwise exactly the outages whose reference equals the trimmed refnum
\* character for character are kept (a null reference, or one that differs in
\* case, is excluded).
C4_RefnumTrimmedExact ==
    Answered =>
        LET out == fres[1].body.outages
            in == Unfiltered
        IN  IF RefnumSupplied
              THEN /\ fres[1].body.refnum = Str(SuppliedRefnum)
                   /\ \A i \in 1..Len(out) : HasReference(out[i])
                   /\ \A i \in 1..Len(in) :
                        (HasReference(in[i]) /\
                         (LocationSupplied => InLocationOrDescription(in[i])))
                            => \E k \in 1..Len(out) : out[k] = in[i]
              ELSE /\ fres[1].body.refnum = Null
                   /\ \A i \in 1..Len(in) :
                        (LocationSupplied => InLocationOrDescription(in[i]))
                            => \E k \in 1..Len(out) : out[k] = in[i]

\* the refnum has white space around it; one outage has that reference, one has
\* it in lower case and one has none: only the first is returned
C4_Witness ==
    /\ Answered
    /\ RefnumSupplied
    /\ freq.query.refnum.s # SuppliedRefnum
    /\ ~LocationSupplied
    /\ Len(fres[1].body.outages) = 1
    /\ \E i, j \in 1..Len(Unfiltered) :
        /\ Unfiltered[i].reference = Null
        /\ Unfiltered[j].reference.t = "str"
        /\ Unfiltered[j].reference.s # SuppliedRefnum
        /\ ToLowerCase(Unfiltered[j].reference.s) = ToLowerCase(SuppliedRefnum)

\* C5: a supplied location is trimmed and lowercased and, if then empty,
\* treated as absent; otherwise exactly the outages whose lowercased location or
\* whose lowercased description contains it are kept.
C5_LocationInEitherField ==
    Answered =>
        LET out == fres[1].body.outages
            in == Unfiltered
        IN  IF LocationSupplied
              THEN /\ fres[1].body.locationFilter = Str(SuppliedLocation)
                   /\ \A i \in 1..Len(out) : InLocationOrDescription(out[i])
                   /\ \A i \in 1..Len(in) :
                        (InLocationOrDescription(in[i]) /\
                         (RefnumSupplied => HasReference(in[i])))
                            => \E k \in 1..Len(out) : out[k] = in[i]
              ELSE /\ fres[1].body.locationFilter = Null
                   /\ \A i \in 1..Len(in) :
                        (RefnumSupplied => HasReference(in[i]))
                            => \E k \in 1..Len(out) : out[k] = in[i]

\* the location has capitals and white space around it; one outage matches by
\* its location only, one by its description only, one by neither: the first
\* two are returned
C5_Witness ==
    /\ Answered
    /\ LocationSupplied
    /\ freq.query.location.s # SuppliedLocation
    /\ ~RefnumSupplied
    /\ Len(Unfiltered) = 3
    /\ Len(fres[1].body.outages) = 2
    /\ \E i, j \in 1..2 :
        LET a == fres[1].body.outages[i]
            b == fres[1].body.outages[j]
        IN  /\ Includes(ToLowerCase(a.location.s), SuppliedLocation)
            /\ ~Includes(ToLowerCase(a.description.s), SuppliedLocation)
            /\ ~Includes(ToLowerCase(b.location.s), SuppliedLocation)
            /\ Includes(ToLowerCase(b.description.s), SuppliedLocation)

====
